---------------------------- MODULE Spec2Model ----------------------------
(***************************************************************************)
(* A model of the reaction presets and the plotting helpers of exponax:    *)
(*   src/exponax/reaction/_belousov_zhabotinsky.py                         *)
(*   src/exponax/reaction/_allen_cahn.py                                   *)
(*   src/exponax/reaction/_fisher_kpp.py                                   *)
(*   src/exponax/viz/_plot.py                                              *)
(*                                                                         *)
(* Numbers are exact rationals <<numerator, denominator>>; complex numbers *)
(* are records [re, im] of rationals.  Arrays are functions over 0-based   *)
(* index ranges, as in the source.  The transforms are modelled for one    *)
(* spatial dimension and for point counts N that divide 4, where every     *)
(* twiddle factor is one of 1, -i, -1, i and the transform is exact.       *)
(***************************************************************************)
EXTENDS Integers, Sequences, FiniteSets, TLC

VARIABLES
    nonlin,     \* the BelousovZhabotinskyNonlinearFun object, or None
    ctor,       \* what the last evaluator constructor call did
    call,       \* the last evaluate call: its input, its steps, its result
    history,    \* every <<input, result>> pair evaluate has produced so far
    ncalls,     \* how many evaluate calls have been made
    stepper,    \* the preset object (AllenCahn, FisherKPP, BelousovZhabotinsky)
    presetCall, \* the preset constructor call that made it: its arguments
    plot        \* the last call of a function of viz/_plot.py

vars == <<nonlin, ctor, call, history, ncalls, stepper, presetCall, plot>>

\* Python's None, for a variable that holds an object (a record) otherwise.
None == [kind |-> "None"]

\* A keyword argument the caller may leave out: {} when absent, {v} when given.
Absent == {}
Given(v) == {v}
OrDefault(arg, default) == IF arg = Absent THEN default ELSE CHOOSE v \in arg : TRUE

-----------------------------------------------------------------------------
(* Exact arithmetic                                                        *)

Abs(x) == IF x < 0 THEN -x ELSE x

RECURSIVE GCD(_, _)
GCD(a, b) == IF b = 0 THEN a ELSE GCD(b, a % b)

\* The rational n/d in lowest terms with a positive denominator.
Rat(n, d) ==
    LET s == IF d < 0 THEN -1 ELSE 1
        g == GCD(Abs(n), Abs(d))
    IN  <<(s * n) \div g, (s * d) \div g>>

RInt(n) == <<n, 1>>
RAdd(a, b) == Rat(a[1] * b[2] + b[1] * a[2], a[2] * b[2])
RNeg(a) == <<-a[1], a[2]>>
RSub(a, b) == RAdd(a, RNeg(b))
RMul(a, b) == Rat(a[1] * b[1], a[2] * b[2])
RLeq(a, b) == a[1] * b[2] <= b[1] * a[2]

Cx(re, im) == [re |-> re, im |-> im]
CInt(a, b) == Cx(RInt(a), RInt(b))
CReal(r) == Cx(r, RInt(0))
CAdd(x, y) == Cx(RAdd(x.re, y.re), RAdd(x.im, y.im))
CMul(x, y) ==
    Cx(RSub(RMul(x.re, y.re), RMul(x.im, y.im)),
       RAdd(RMul(x.re, y.im), RMul(x.im, y.re)))
CScale(r, x) == Cx(RMul(r, x.re), RMul(r, x.im))

-----------------------------------------------------------------------------
(* Bounds and input sets                                                   *)

\* How many evaluate calls one behaviour makes.
MaxCalls == 3

\* Point counts per axis (even, and dividing 4 so that the DFT is exact).
NumPointsChoices == {2, 4}

SpatialDimsChoices == {1}

ChannelChoices == {1, 2, 3, 4}

DealiasingFractions == {Rat(1, 2), Rat(2, 3), Rat(1, 1)}

NumModes(N) == (N \div 2) + 1

Modes(N) == 0 .. (N \div 2)

\* Two spectra per channel; both carry energy in every mode, so that the
\* mask changes them, and both have imaginary parts.
SpectrumA(N) == [k \in Modes(N) |-> CInt(N, k * N)]
SpectrumB(N) == [k \in Modes(N) |-> CInt(-(k * N), N)]

Spectra(N) == {SpectrumA(N), SpectrumB(N)}

\* Fourier-space states of shape (3, N//2 + 1).
States(N) == [0 .. 2 -> Spectra(N)]


-----------------------------------------------------------------------------
(* The transforms of jax.numpy.fft, along the one spatial axis             *)

\* exp(-2 pi i j / N) for N dividing 4.
Twiddle(N, j) ==
    LET q == (j * (4 \div N)) % 4
    IN  CASE q = 0 -> CInt(1, 0)
          [] q = 1 -> CInt(0, -1)
          [] q = 2 -> CInt(-1, 0)
          [] q = 3 -> CInt(0, 1)

RECURSIVE CSum(_, _, _)
CSum(f, lo, hi) == IF lo > hi THEN CInt(0, 0) ELSE CAdd(f[lo], CSum(f, lo + 1, hi))

RECURSIVE RSum(_, _, _)
RSum(f, lo, hi) == IF lo > hi THEN RInt(0) ELSE RAdd(f[lo], RSum(f, lo + 1, hi))

\* spatial_shape(D, N) = (N,) * D and space_indices(D) = (-1, ..., -D).
SpatialShape(D, N) == [i \in 1 .. D |-> N]
SpaceIndices(D) == [i \in 1 .. D |-> -i]

\* Real-input DFT of one row: h[k] = sum_n u[n] exp(-2 pi i k n / N), k = 0..N/2.
Rfft1(u, N) ==
    [k \in Modes(N) |->
        CSum([n \in 0 .. N - 1 |-> CScale(u[n], Twiddle(N, k * n))], 0, N - 1)]

\* Its inverse for an output of N points: the spectrum is extended by Hermitian
\* symmetry, so the imaginary parts of the mean and Nyquist modes are dropped.
Irfft1(h, N) ==
    [n \in 0 .. N - 1 |->
        RMul(Rat(1, N),
             RSum([k \in Modes(N) |->
                      IF k = 0 THEN h[0].re
                      ELSE IF 2 * k = N
                           THEN RMul(RInt(IF n % 2 = 0 THEN 1 ELSE -1), h[k].re)
                           ELSE RMul(RInt(2),
                                     CMul(h[k], Twiddle(N, (N - k) * n)).re)],
                  0, N \div 2))]

\* jnp.fft.irfftn(a, s=s, axes=axes) on an array with a leading channel axis.
Irfftn(a, s, axes) == [c \in DOMAIN a |-> Irfft1(a[c], s[1])]

\* jnp.fft.rfftn(a, axes=axes) on an array with a leading channel axis.
Rfftn(a, axes) ==
    [c \in DOMAIN a |-> Rfft1(a[c], Cardinality(DOMAIN a[c]))]

-----------------------------------------------------------------------------
(* BaseNonlinearFun: the dealiasing mask and the fields it stores          *)

\* 1 for a mode whose wavenumber is at most fraction * Nyquist (N/2), 0 above.
DealiasingMask(D, N, fraction) ==
    [k \in Modes(N) |-> IF RLeq(RInt(k), RMul(fraction, Rat(N, 2))) THEN 1 ELSE 0]

BaseNonlinearFunInit(D, N, C, derivative_operator, dealiasing_fraction) ==
    [kind |-> "BelousovZhabotinskyNonlinearFun",
     num_spatial_dims |-> D,
     num_points |-> N,
     num_channels |-> C,
     derivative_operator |-> derivative_operator,
     dealiasing_mask |-> DealiasingMask(D, N, dealiasing_fraction)]

\* The derivative operator of a one-dimensional grid, i * 2 pi k / domain_extent,
\* with domain_extent given in units of 2 pi: shape (1, N//2 + 1).
BuildDerivativeOperator(D, domain_extent, N) ==
    [d \in 0 .. D - 1 |->
        [k \in Modes(N) |-> Cx(RInt(0), RMul(RInt(k), Rat(domain_extent[2], domain_extent[1])))]]

\* Domain extents, in units of 2 pi.
DomainExtents == {Rat(1, 1), Rat(1, 2)}

-----------------------------------------------------------------------------
(* BelousovZhabotinskyNonlinearFun                                         *)

BelousovZhabotinskyNonlinearFunInitLoose(D, N, C, derivative_operator, dealiasing_fraction) ==
    IF C < 3
    THEN [raised |-> "ValueError", base_init |-> FALSE, self |-> None]
    ELSE [raised |-> "None", base_init |-> TRUE,
          self |-> BaseNonlinearFunInit(D, N, C, derivative_operator,
                                        dealiasing_fraction)]

\* __init__: the channel check, then super().__init__.
BelousovZhabotinskyNonlinearFunInit(D, N, C, derivative_operator, dealiasing_fraction) ==
    IF C # 3
    THEN [raised |-> "ValueError", base_init |-> FALSE, self |-> None]
    ELSE [raised |-> "None", base_init |-> TRUE,
          self |-> BaseNonlinearFunInit(D, N, C, derivative_operator,
                                        dealiasing_fraction)]

ApplyMaskAdding(mask, u_hat) ==
    [c \in DOMAIN u_hat |->
        [k \in DOMAIN u_hat[c] |-> CAdd(CReal(RInt(mask[k])), u_hat[c][k])]]

\* self.dealiasing_mask * u_hat: element-wise, the mask broadcast over channels.
ApplyMask(mask, u_hat) ==
    [c \in DOMAIN u_hat |->
        [k \in DOMAIN u_hat[c] |-> CScale(RInt(mask[k]), u_hat[c][k])]]

\* The pointwise map of the three-species reaction, on a real array (3, N).
BelousovZhabotinskyPointwise(u) ==
    LET pts == DOMAIN u[0]
    IN  (0 :> [n \in pts |->
                  RSub(RSub(RAdd(u[0][n], u[1][n]), RMul(u[0][n], u[1][n])),
                       RMul(u[0][n], u[0][n]))])
        @@ (1 :> [n \in pts |->
                  RSub(RSub(u[2][n], u[1][n]), RMul(u[0][n], u[1][n]))])
        @@ (2 :> [n \in pts |-> RSub(u[0][n], u[2][n])])

Step(op, in, out) == [op |-> op, in |-> in, out |-> out]

EvaluateUnmasked(self, u_hat) ==
    LET u == Irfftn(u_hat,
                    SpatialShape(self.num_spatial_dims, self.num_points),
                    SpaceIndices(self.num_spatial_dims))
        u_power == BelousovZhabotinskyPointwise(u)
        u_power_hat == Rfftn(u_power, SpaceIndices(self.num_spatial_dims))
    IN  [self |-> self,
         u_hat |-> u_hat,
         steps |-> <<Step("irfftn", u_hat, u),
                     Step("pointwise", u, u_power),
                     Step("rfftn", u_power, u_power_hat)>>,
         result |-> u_power_hat]

EvaluateInPlace(self, u_hat) ==
    LET u_hat_dealiased == ApplyMask(self.dealiasing_mask, u_hat)
        u == Irfftn(u_hat_dealiased,
                    SpatialShape(self.num_spatial_dims, self.num_points),
                    SpaceIndices(self.num_spatial_dims))
        u_power == BelousovZhabotinskyPointwise(u)
        u_power_hat == Rfftn(u_power, SpaceIndices(self.num_spatial_dims))
    IN  [self |-> [self EXCEPT !.dealiasing_mask =
                        [k \in DOMAIN @ |-> IF k = 0 THEN @[k] ELSE 0]],
         u_hat |-> u_hat_dealiased,
         steps |-> <<Step("mask", u_hat, u_hat_dealiased),
                     Step("irfftn", u_hat_dealiased, u),
                     Step("pointwise", u, u_power),
                     Step("rfftn", u_power, u_power_hat)>>,
         result |-> u_power_hat]

\* evaluate: what it leaves in self and in the caller's array, the steps it
\* takes in order (each with its operand and its value), and what it returns.
BelousovZhabotinskyNonlinearFunEvaluate(self, u_hat) ==
    LET u_hat_dealiased == ApplyMask(self.dealiasing_mask, u_hat)
        u == Irfftn(u_hat_dealiased,
                    SpatialShape(self.num_spatial_dims, self.num_points),
                    SpaceIndices(self.num_spatial_dims))
        u_power == BelousovZhabotinskyPointwise(u)
        u_power_hat == Rfftn(u_power, SpaceIndices(self.num_spatial_dims))
    IN  [self |-> self,
         u_hat |-> u_hat,
         steps |-> <<Step("mask", u_hat, u_hat_dealiased),
                     Step("irfftn", u_hat_dealiased, u),
                     Step("pointwise", u, u_power),
                     Step("rfftn", u_power, u_power_hat)>>,
         result |-> u_power_hat]

-----------------------------------------------------------------------------
(* The evaluator's life: one constructor call, then evaluate calls         *)

NoCall == [kind |-> "None"]

Init ==
    /\ nonlin = None
    /\ ctor = NoCall
    /\ call = NoCall
    /\ history = {}
    /\ ncalls = 0
    /\ stepper = None
    /\ presetCall = NoCall
    /\ plot = NoCall

\* BelousovZhabotinskyNonlinearFun(D, N, C, derivative_operator=..., dealiasing_fraction=...)
NewBelousovZhabotinskyNonlinearFun ==
    /\ ctor = NoCall
    /\ \E D \in SpatialDimsChoices, N \in NumPointsChoices, C \in ChannelChoices,
          L \in DomainExtents, f \in DealiasingFractions :
          LET r == BelousovZhabotinskyNonlinearFunInit(D, N, C, BuildDerivativeOperator(D, L, N), f)
          IN  /\ ctor' = [kind |-> "BelousovZhabotinskyNonlinearFun",
                          num_spatial_dims |-> D, num_points |-> N,
                          num_channels |-> C, dealiasing_fraction |-> f,
                          raised |-> r.raised, base_init |-> r.base_init]
              /\ nonlin' = r.self
    /\ UNCHANGED <<call, history, ncalls, stepper, presetCall, plot>>

\* nonlin.evaluate(u_hat)
Evaluate ==
    /\ nonlin # None
    /\ ncalls < MaxCalls
    /\ \E u_hat \in States(nonlin.num_points) :
          LET r == BelousovZhabotinskyNonlinearFunEvaluate(nonlin, u_hat)
          IN  /\ nonlin' = r.self
              /\ call' = [kind |-> "evaluate",
                          self_before |-> nonlin,
                          u_hat |-> u_hat,
                          u_hat_after |-> r.u_hat,
                          steps |-> r.steps,
                          result |-> r.result]
              /\ history' = history \cup {<<u_hat, r.result>>}
              /\ ncalls' = ncalls + 1
    /\ UNCHANGED <<ctor, stepper, presetCall, plot>>

NextNonlin == NewBelousovZhabotinskyNonlinearFun \/ Evaluate

SpecNonlin == Init /\ [][NextNonlin]_vars


-----------------------------------------------------------------------------
(* The presets: AllenCahn, FisherKPP, BelousovZhabotinsky                  *)

\* A Python list, indexed from 0.
List(seq) == [i \in 0 .. Len(seq) - 1 |-> seq[i + 1]]

\* build_laplace_operator(derivative_operator, order=2): the sum over the axes
\* of the squared single-axis operators, with a leading axis of length 1.
BuildLaplaceOperator(derivative_operator, order) ==
    LET dims == DOMAIN derivative_operator
        ks == DOMAIN derivative_operator[0]
    IN  [c \in {0} |->
            [k \in ks |->
                CSum([d \in dims |-> CMul(derivative_operator[d][k],
                                          derivative_operator[d][k])],
                     0, Cardinality(dims) - 1)]]

\* A call of PolynomialNonlinearFun: its positional and its keyword arguments.
PolynomialNonlinearFun(args, kwargs) ==
    [raised |-> "None",
     base_init |-> TRUE,
     self |-> [kind |-> "PolynomialNonlinearFun", args |-> args, kwargs |-> kwargs]]

\* ---- AllenCahn

AllenCahnDefaultDealiasingFractionQuadratic == Rat(2, 3)
AllenCahnDefaultDealiasingFraction == Rat(1, 2)
AllenCahnDefaultNumCirclePoints == 16
AllenCahnDefaultCircleRadius == Rat(1, 1)
AllenCahnDefaultOrder == 2

AllenCahnBuildLinearOperatorNoReaction(self, derivative_operator) ==
    LET laplace == BuildLaplaceOperator(derivative_operator, 2)
    IN  [c \in DOMAIN laplace |->
            [k \in DOMAIN laplace[c] |-> CScale(self.diffusivity, laplace[c][k])]]

\* _build_linear_operator: diffusivity * laplace + first_order_coefficient
AllenCahnBuildLinearOperator(self, derivative_operator) ==
    LET laplace == BuildLaplaceOperator(derivative_operator, 2)
    IN  [c \in DOMAIN laplace |->
            [k \in DOMAIN laplace[c] |->
                CAdd(CScale(self.diffusivity, laplace[c][k]),
                     CReal(self.first_order_coefficient))]]

\* _build_nonlinear_fun
AllenCahnBuildNonlinearFun(self, derivative_operator) ==
    PolynomialNonlinearFun(
        <<self.num_spatial_dims, self.num_points>>,
        [dealiasing_fraction |-> self.dealiasing_fraction,
         coefficients |-> List(<<RInt(0), RInt(0), RInt(0),
                                 self.third_order_coefficient>>)])

\* ---- FisherKPP

FisherKPPDefaultDealiasingFraction == Rat(2, 3)
FisherKPPDefaultNumCirclePoints == 16
FisherKPPDefaultCircleRadius == Rat(1, 1)
FisherKPPDefaultOrder == 2

\* _build_linear_operator: laplace + r
FisherKPPBuildLinearOperator(self, derivative_operator) ==
    LET laplace == BuildLaplaceOperator(derivative_operator, 2)
    IN  [c \in DOMAIN laplace |->
            [k \in DOMAIN laplace[c] |-> CAdd(laplace[c][k], CReal(self.r))]]

\* _build_nonlinear_fun
FisherKPPBuildNonlinearFun(self, derivative_operator) ==
    PolynomialNonlinearFun(
        <<>>,
        [num_spatial_dims |-> self.num_spatial_dims,
         num_points |-> self.num_points,
         num_channels |-> self.num_channels,
         derivative_operator |-> derivative_operator,
         dealiasing_fraction |-> self.dealiasing_fraction,
         coefficients |-> List(<<RInt(0), RInt(0), RNeg(self.r)>>)])

\* ---- BelousovZhabotinsky

BelousovZhabotinskyDefaultDealiasingFraction == Rat(1, 2)
BelousovZhabotinskyDefaultNumCirclePoints == 16
BelousovZhabotinskyDefaultCircleRadius == Rat(1, 1)
BelousovZhabotinskyDefaultOrder == 2

BelousovZhabotinskyBuildLinearOperatorSwapped(self, derivative_operator) ==
    LET laplace == BuildLaplaceOperator(derivative_operator, 2)
    IN  [c \in 0 .. 2 |->
            [k \in DOMAIN laplace[0] |->
                CScale(self.diffusivities[IF c = 2 THEN 2 ELSE 1 - c], laplace[0][k])]]

\* _build_linear_operator: the three scaled Laplace operators, concatenated
\* along the channel axis.
BelousovZhabotinskyBuildLinearOperator(self, derivative_operator) ==
    LET laplace == BuildLaplaceOperator(derivative_operator, 2)
    IN  [c \in 0 .. 2 |->
            [k \in DOMAIN laplace[0] |->
                CScale(self.diffusivities[c], laplace[0][k])]]

\* _build_nonlinear_fun
BelousovZhabotinskyBuildNonlinearFun(self, derivative_operator) ==
    BelousovZhabotinskyNonlinearFunInit(self.num_spatial_dims, self.num_points, self.num_channels,
                       derivative_operator, self.dealiasing_fraction)

\* ---- BaseStepper

\* self._build_linear_operator and self._build_nonlinear_fun, resolved on the
\* class of self.
BuildLinearOperator(self, derivative_operator) ==
    CASE self.kind = "AllenCahn" ->
            AllenCahnBuildLinearOperator(self, derivative_operator)
      [] self.kind = "FisherKPP" ->
            FisherKPPBuildLinearOperator(self, derivative_operator)
      [] self.kind = "BelousovZhabotinsky" ->
            BelousovZhabotinskyBuildLinearOperator(self, derivative_operator)

BuildNonlinearFun(self, derivative_operator) ==
    CASE self.kind = "AllenCahn" ->
            AllenCahnBuildNonlinearFun(self, derivative_operator)
      [] self.kind = "FisherKPP" ->
            FisherKPPBuildNonlinearFun(self, derivative_operator)
      [] self.kind = "BelousovZhabotinsky" ->
            BelousovZhabotinskyBuildNonlinearFun(self, derivative_operator)

\* BaseStepper.__init__(**a): stores the grid and the channel count, builds the
\* derivative operator and hands it to the two procedures of the preset.
BaseStepperInit(self, a) ==
    LET self1 == [num_spatial_dims |-> a.num_spatial_dims,
                  domain_extent |-> a.domain_extent,
                  num_points |-> a.num_points,
                  dt |-> a.dt,
                  num_channels |-> a.num_channels,
                  base_args |-> a] @@ self
        derivative_operator ==
            BuildDerivativeOperator(a.num_spatial_dims, a.domain_extent, a.num_points)
        linear_operator == BuildLinearOperator(self1, derivative_operator)
        nonlinear_fun == BuildNonlinearFun(self1, derivative_operator)
    IN  [raised |-> nonlinear_fun.raised,
         self |-> IF nonlinear_fun.raised # "None" THEN None
                  ELSE [derivative_operator |-> derivative_operator,
                        linear_operator |-> linear_operator,
                        nonlinear_fun |-> nonlinear_fun.self] @@ self1]

\* ---- the constructors

AllenCahnInit(D, L, N, dt, kw) ==
    BaseStepperInit(
        [kind |-> "AllenCahn",
         diffusivity |-> OrDefault(kw.diffusivity, Rat(5, 1000)),
         first_order_coefficient |-> OrDefault(kw.first_order_coefficient, RInt(1)),
         third_order_coefficient |-> OrDefault(kw.third_order_coefficient, RInt(-1)),
         dealiasing_fraction |->
             OrDefault(kw.dealiasing_fraction, AllenCahnDefaultDealiasingFraction)],
        [num_spatial_dims |-> D,
         domain_extent |-> L,
         num_points |-> N,
         dt |-> dt,
         num_channels |-> 1,
         order |-> OrDefault(kw.order, AllenCahnDefaultOrder),
         num_circle_points |->
             OrDefault(kw.num_circle_points, AllenCahnDefaultNumCirclePoints),
         circle_radius |-> OrDefault(kw.circle_radius, AllenCahnDefaultCircleRadius)])

FisherKPPInit(D, L, N, dt, kw) ==
    BaseStepperInit(
        [kind |-> "FisherKPP",
         dealiasing_fraction |->
             OrDefault(kw.dealiasing_fraction, FisherKPPDefaultDealiasingFraction),
         r |-> OrDefault(kw.r, RInt(1))],
        [num_spatial_dims |-> D,
         domain_extent |-> L,
         num_points |-> N,
         dt |-> dt,
         num_channels |-> 1,
         order |-> OrDefault(kw.order, FisherKPPDefaultOrder),
         num_circle_points |->
             OrDefault(kw.num_circle_points, FisherKPPDefaultNumCirclePoints),
         circle_radius |-> OrDefault(kw.circle_radius, FisherKPPDefaultCircleRadius)])

BelousovZhabotinskyInitFixedRadius(D, L, N, dt, kw) ==
    BaseStepperInit(
        [kind |-> "BelousovZhabotinsky",
         diffusivities |->
             OrDefault(kw.diffusivities,
                       List(<<Rat(1, 100000), Rat(2, 100000), Rat(1, 100000)>>)),
         dealiasing_fraction |->
             OrDefault(kw.dealiasing_fraction,
                       BelousovZhabotinskyDefaultDealiasingFraction)],
        [num_spatial_dims |-> D,
         domain_extent |-> L,
         num_points |-> N,
         dt |-> dt,
         num_channels |-> 3,
         order |-> OrDefault(kw.order, BelousovZhabotinskyDefaultOrder),
         num_circle_points |->
             OrDefault(kw.num_circle_points, BelousovZhabotinskyDefaultNumCirclePoints),
         circle_radius |-> BelousovZhabotinskyDefaultCircleRadius])

BelousovZhabotinskyInit(D, L, N, dt, kw) ==
    BaseStepperInit(
        [kind |-> "BelousovZhabotinsky",
         diffusivities |->
             OrDefault(kw.diffusivities,
                       List(<<Rat(1, 100000), Rat(2, 100000), Rat(1, 100000)>>)),
         dealiasing_fraction |->
             OrDefault(kw.dealiasing_fraction,
                       BelousovZhabotinskyDefaultDealiasingFraction)],
        [num_spatial_dims |-> D,
         domain_extent |-> L,
         num_points |-> N,
         dt |-> dt,
         num_channels |-> 3,
         order |-> OrDefault(kw.order, BelousovZhabotinskyDefaultOrder),
         num_circle_points |->
             OrDefault(kw.num_circle_points, BelousovZhabotinskyDefaultNumCirclePoints),
         circle_radius |->
             OrDefault(kw.circle_radius, BelousovZhabotinskyDefaultCircleRadius)])

\* ---- what the caller may pass

TimeSteps == {Rat(1, 100), Rat(1, 10)}

\* The keyword arguments every preset takes.
CommonKwargs ==
    [order : {Absent, Given(4)},
     dealiasing_fraction : {Absent, Given(Rat(1, 1))},
     num_circle_points : {Absent, Given(32)},
     circle_radius : {Absent, Given(Rat(1, 2))}]

AllenCahnKwargs ==
    {c @@ e : c \in CommonKwargs,
              e \in [diffusivity : {Absent, Given(Rat(1, 100))},
                     first_order_coefficient : {Absent, Given(RInt(2))},
                     third_order_coefficient : {Absent, Given(RInt(-3))}]}

FisherKPPKwargs ==
    {c @@ e : c \in CommonKwargs, e \in [r : {Absent, Given(RInt(2))}]}

BelousovZhabotinskyKwargs ==
    {c @@ e : c \in CommonKwargs,
              e \in [diffusivities :
                        {Absent, Given(List(<<RInt(1), RInt(2), RInt(3)>>))}]}

PresetCall(kind, D, L, N, dt, kw, r) ==
    [kind |-> kind, num_spatial_dims |-> D, domain_extent |-> L, num_points |-> N,
     dt |-> dt, kw |-> kw, raised |-> r.raised]

NewAllenCahn ==
    /\ presetCall = NoCall
    /\ \E D \in SpatialDimsChoices, L \in DomainExtents, N \in NumPointsChoices,
          dt \in TimeSteps, kw \in AllenCahnKwargs :
          LET r == AllenCahnInit(D, L, N, dt, kw)
          IN  /\ stepper' = r.self
              /\ presetCall' = PresetCall("AllenCahn", D, L, N, dt, kw, r)
    /\ UNCHANGED <<nonlin, ctor, call, history, ncalls, plot>>

NewFisherKPP ==
    /\ presetCall = NoCall
    /\ \E D \in SpatialDimsChoices, L \in DomainExtents, N \in NumPointsChoices,
          dt \in TimeSteps, kw \in FisherKPPKwargs :
          LET r == FisherKPPInit(D, L, N, dt, kw)
          IN  /\ stepper' = r.self
              /\ presetCall' = PresetCall("FisherKPP", D, L, N, dt, kw, r)
    /\ UNCHANGED <<nonlin, ctor, call, history, ncalls, plot>>

NewBelousovZhabotinsky ==
    /\ presetCall = NoCall
    /\ \E D \in SpatialDimsChoices, L \in DomainExtents, N \in NumPointsChoices,
          dt \in TimeSteps, kw \in BelousovZhabotinskyKwargs :
          LET r == BelousovZhabotinskyInit(D, L, N, dt, kw)
          IN  /\ stepper' = r.self
              /\ presetCall' = PresetCall("BelousovZhabotinsky", D, L, N, dt, kw, r)
    /\ UNCHANGED <<nonlin, ctor, call, history, ncalls, plot>>

NextPreset == NewAllenCahn \/ NewFisherKPP \/ NewBelousovZhabotinsky

SpecPreset == Init /\ [][NextPreset]_vars

-----------------------------------------------------------------------------
(* viz/_plot.py: arrays are modelled by their shapes, axes by their names  *)

\* The longest axis of an array handed to a plot function.
MaxExtent == 2

\* The most rows, and the most columns, of a facet grid.
MaxGrid == 2

RECURSIVE SeqsOfLen(_, _)
SeqsOfLen(S, n) ==
    IF n = 0 THEN {<<>>}
    ELSE {Append(q, x) : q \in SeqsOfLen(S, n - 1), x \in S}

\* Shapes of arrays with one to four axes.
Shapes == UNION {SeqsOfLen(1 .. MaxExtent, n) : n \in 1 .. 4}

Grids == (1 .. MaxGrid) \X (1 .. MaxGrid)

\* numpy raises IndexError for an index past the end; jax.numpy clamps it.
ArrayKinds == {"numpy", "jax"}

\* a[i] for an integer i >= 0 on an array of this shape and kind.
Index(shape, i, array_kind) ==
    IF i < shape[1]
    THEN [raised |-> "None", index |-> i, in_range |-> TRUE, shape |-> Tail(shape)]
    ELSE IF array_kind = "jax"
    THEN [raised |-> "None", index |-> shape[1] - 1, in_range |-> FALSE,
          shape |-> Tail(shape)]
    ELSE [raised |-> "IndexError", index |-> i, in_range |-> FALSE, shape |-> <<>>]

\* jnp.swapaxes(a, 0, 1) and a[:, :, None, :], on shapes.
SwapAxes01(shape) == <<shape[2], shape[1]>> \o SubSeq(shape, 3, Len(shape))
InsertAxis2(shape) == <<shape[1], shape[2], 1>> \o SubSeq(shape, 3, Len(shape))

\* plot_state_1d(state, ax=ax): `ax` is rebound to the new axis when it was
\* None, so the test before the return sees an axis in either case.
PlotState1d(shape, ax) ==
    IF Len(shape) # 2
    THEN [raised |-> "ValueError", drawn_on |-> "None", returns |-> "nothing"]
    ELSE LET ax1 == IF ax = "None" THEN "new axis" ELSE ax
         IN  [raised |-> "None",
              drawn_on |-> ax1,
              returns |-> IF ax1 = "None" THEN "(fig, ax, p)" ELSE "p"]

\* plot_spatio_temporal(trj, ax=ax)
PlotSpatioTemporal(shape, ax) ==
    IF Len(shape) # 3
    THEN [raised |-> "ValueError", drawn_on |-> "None", returns |-> "nothing"]
    ELSE LET ax1 == IF ax = "None" THEN "new axis" ELSE ax
         IN  [raised |-> "None", drawn_on |-> ax1, returns |-> "im"]

\* plot_state_2d(state, ax=ax)
PlotState2d(shape, ax) ==
    IF Len(shape) # 3
    THEN [raised |-> "ValueError", drawn_on |-> "None", returns |-> "nothing"]
    ELSE LET ax1 == IF ax = "None" THEN "new axis" ELSE ax
         IN  [raised |-> "None", drawn_on |-> ax1, returns |-> "im"]

\* What one pass of a facet loop did with cell i.
Cell(i, indexed, in_range, plotted, titled, removed, raised) ==
    [i |-> i, indexed |-> indexed, in_range |-> in_range, plotted |-> plotted,
     titled |-> titled, removed |-> removed, raised |-> raised]

\* The body of the loop of plot_state_1d_facet.
PlotState1dFacetCell(states, titles, array_kind, i) ==
    LET num_batches == states[1]
    IN  IF i < num_batches
        THEN LET item == Index(states, i, array_kind)
                 p == PlotState1d(item.shape, "cell")
             IN  IF item.raised # "None"
                 THEN Cell(i, TRUE, item.in_range, FALSE, FALSE, FALSE, item.raised)
                 ELSE IF p.raised # "None"
                 THEN Cell(i, TRUE, item.in_range, FALSE, FALSE, FALSE, p.raised)
                 ELSE Cell(i, TRUE, item.in_range, TRUE, titles, FALSE, "None")
        ELSE Cell(i, FALSE, TRUE, FALSE, FALSE, TRUE, "None")

\* The body of the loop of plot_spatio_temporal_facet (trjs already reshaped).
PlotSpatioTemporalFacetCell(trjs, titles, array_kind, i) ==
    LET num_subplots == trjs[1]
        single_trj == Index(trjs, i, array_kind)
        p == PlotSpatioTemporal(single_trj.shape, "cell")
    IN  IF single_trj.raised # "None"
        THEN Cell(i, TRUE, single_trj.in_range, FALSE, FALSE, FALSE, single_trj.raised)
        ELSE IF p.raised # "None"
        THEN Cell(i, TRUE, single_trj.in_range, FALSE, FALSE, FALSE, p.raised)
        ELSE IF i >= num_subplots
        THEN Cell(i, TRUE, single_trj.in_range, TRUE, FALSE, TRUE, "None")
        ELSE Cell(i, TRUE, single_trj.in_range, TRUE, titles, FALSE, "None")

\* The body of the loop of plot_state_2d_facet.
PlotState2dFacetCell(states, titles, array_kind, i) ==
    LET num_subplots == states[1]
        item == Index(states, i, array_kind)
        p == PlotState2d(item.shape, "cell")
    IN  IF item.raised # "None"
        THEN Cell(i, TRUE, item.in_range, FALSE, FALSE, FALSE, item.raised)
        ELSE IF p.raised # "None"
        THEN Cell(i, TRUE, item.in_range, FALSE, FALSE, FALSE, p.raised)
        ELSE IF i >= num_subplots
        THEN Cell(i, TRUE, item.in_range, TRUE, FALSE, TRUE, "None")
        ELSE Cell(i, TRUE, item.in_range, TRUE, titles, FALSE, "None")

FacetCell(fn, arr, titles, array_kind, i) ==
    CASE fn = "plot_state_1d_facet" ->
            PlotState1dFacetCell(arr, titles, array_kind, i)
      [] fn = "plot_spatio_temporal_facet" ->
            PlotSpatioTemporalFacetCell(arr, titles, array_kind, i)
      [] fn = "plot_state_2d_facet" ->
            PlotState2dFacetCell(arr, titles, array_kind, i)

\* for i, ax in enumerate(ax_s.flatten()): the cells in order, until one raises.
RECURSIVE FacetLoop(_, _, _, _, _, _, _)
FacetLoop(fn, arr, titles, array_kind, ncells, i, cells) ==
    IF i >= ncells
    THEN [raised |-> "None", returns |-> "fig", cells |-> cells]
    ELSE LET c == FacetCell(fn, arr, titles, array_kind, i)
         IN  IF c.raised # "None"
             THEN [raised |-> c.raised, returns |-> "nothing",
                   cells |-> Append(cells, c)]
             ELSE FacetLoop(fn, arr, titles, array_kind, ncells, i + 1,
                            Append(cells, c))

\* fig, ax_s = plt.subplots(*grid, ...); ax_s.flatten(): for a grid of one cell
\* plt.subplots returns the axis itself, which has no flatten.
FacetOver(fn, arr, titles, array_kind, grid) ==
    IF grid[1] * grid[2] = 1
    THEN [raised |-> "AttributeError", returns |-> "nothing", cells |-> <<>>]
    ELSE FacetLoop(fn, arr, titles, array_kind, grid[1] * grid[2], 0, <<>>)

Raise(e) == [raised |-> e, returns |-> "nothing", cells |-> <<>>]

\* plot_state_1d_facet(states, titles=..., grid=...)
PlotState1dFacet(states, titles, array_kind, grid) ==
    IF Len(states) # 3 THEN Raise("ValueError")
    ELSE FacetOver("plot_state_1d_facet", states, titles, array_kind, grid)

\* plot_spatio_temporal_facet(trjs, facet_over_channels=..., titles=..., grid=...)
PlotSpatioTemporalFacet(trjs, facet_over_channels, titles, array_kind, grid) ==
    IF facet_over_channels /\ Len(trjs) # 3 THEN Raise("ValueError")
    ELSE IF ~facet_over_channels /\ Len(trjs) # 4 THEN Raise("ValueError")
    ELSE LET trjs1 == IF facet_over_channels
                      THEN InsertAxis2(SwapAxes01(trjs))
                      ELSE trjs
         IN  FacetOver("plot_spatio_temporal_facet", trjs1, titles, array_kind, grid)

\* plot_state_2d_facet(states, facet_over_channels=..., titles=..., grid=...)
PlotState2dFacet(states, facet_over_channels, titles, array_kind, grid) ==
    IF facet_over_channels /\ Len(states) # 3 THEN Raise("ValueError")
    ELSE IF ~facet_over_channels /\ Len(states) # 4 THEN Raise("ValueError")
    ELSE FacetOver("plot_state_2d_facet", states, titles, array_kind, grid)

\* ---- one call of a plot function

SingleCall(fn, shape, ax, r) ==
    [kind |-> fn, shape |-> shape, ax |-> ax, raised |-> r.raised,
     drawn_on |-> r.drawn_on, returns |-> r.returns]

FacetCall(fn, shape, facet_over_channels, titles, array_kind, grid, r) ==
    [kind |-> fn, shape |-> shape, facet_over_channels |-> facet_over_channels,
     titles |-> titles, array_kind |-> array_kind, grid |-> grid,
     raised |-> r.raised, returns |-> r.returns, cells |-> r.cells]

NotPlot == <<nonlin, ctor, call, history, ncalls, stepper, presetCall>>

CallPlotState1d ==
    /\ plot = NoCall
    /\ \E shape \in Shapes, ax \in {"None", "caller's axis"} :
          plot' = SingleCall("plot_state_1d", shape, ax, PlotState1d(shape, ax))
    /\ UNCHANGED NotPlot

CallPlotSpatioTemporal ==
    /\ plot = NoCall
    /\ \E shape \in Shapes, ax \in {"None", "caller's axis"} :
          plot' = SingleCall("plot_spatio_temporal", shape, ax,
                             PlotSpatioTemporal(shape, ax))
    /\ UNCHANGED NotPlot

CallPlotState2d ==
    /\ plot = NoCall
    /\ \E shape \in Shapes, ax \in {"None", "caller's axis"} :
          plot' = SingleCall("plot_state_2d", shape, ax, PlotState2d(shape, ax))
    /\ UNCHANGED NotPlot

CallPlotState1dFacet ==
    /\ plot = NoCall
    /\ \E shape \in Shapes, titles \in BOOLEAN, array_kind \in ArrayKinds,
          grid \in Grids :
          plot' = FacetCall("plot_state_1d_facet", shape, FALSE, titles,
                            array_kind, grid,
                            PlotState1dFacet(shape, titles, array_kind, grid))
    /\ UNCHANGED NotPlot

CallPlotSpatioTemporalFacet ==
    /\ plot = NoCall
    /\ \E shape \in Shapes, foc \in BOOLEAN, titles \in BOOLEAN,
          array_kind \in ArrayKinds, grid \in Grids :
          plot' = FacetCall("plot_spatio_temporal_facet", shape, foc, titles,
                            array_kind, grid,
                            PlotSpatioTemporalFacet(shape, foc, titles,
                                                    array_kind, grid))
    /\ UNCHANGED NotPlot

CallPlotState2dFacet ==
    /\ plot = NoCall
    /\ \E shape \in Shapes, foc \in BOOLEAN, titles \in BOOLEAN,
          array_kind \in ArrayKinds, grid \in Grids :
          plot' = FacetCall("plot_state_2d_facet", shape, foc, titles,
                            array_kind, grid,
                            PlotState2dFacet(shape, foc, titles, array_kind, grid))
    /\ UNCHANGED NotPlot

NextPlot ==
    \/ CallPlotState1d
    \/ CallPlotSpatioTemporal
    \/ CallPlotState2d
    \/ CallPlotState1dFacet
    \/ CallPlotSpatioTemporalFacet
    \/ CallPlotState2dFacet

SpecPlot == Init /\ [][NextPlot]_vars

-----------------------------------------------------------------------------
(* Properties of the evaluator                                             *)

\* C1: constructing the evaluator with a channel count other than 3 raises
\* ValueError before the base initialiser runs, so no object exists and no
\* evaluate call is possible; with 3 channels the base initialiser runs and
\* nothing is raised.
C1_ChannelCountChecked ==
    ctor.kind # "None" =>
        /\ (ctor.num_channels # 3) <=> (ctor.raised = "ValueError")
        /\ ctor.num_channels # 3 =>
              /\ ~ctor.base_init
              /\ nonlin = None
              /\ call = NoCall
              /\ ncalls = 0
        /\ ctor.num_channels = 3 =>
              /\ ctor.raised = "None"
              /\ ctor.base_init
              /\ nonlin.kind = "BelousovZhabotinskyNonlinearFun"
              /\ nonlin.num_channels = 3

C1_Witness ==
    /\ ctor.kind # "None"
    /\ ctor.num_channels > 3
    /\ ctor.raised = "ValueError"

\* C2: every evaluate call masks its input, inverse-transforms the masked
\* state, applies the pointwise map and forward-transforms, in this order,
\* each step taking the value of the step before; the inverse transform is
\* never given the unmasked input.
C2_EvaluateSequence ==
    call.kind = "evaluate" =>
        LET st == call.steps
            m == call.self_before.dealiasing_mask
            N == call.self_before.num_points
        IN  /\ Len(st) = 4
            /\ [i \in 1 .. 4 |-> st[i].op] = <<"mask", "irfftn", "pointwise", "rfftn">>
            /\ st[1].in = call.u_hat
            /\ \A c \in 0 .. 2, k \in Modes(N) :
                  st[2].in[c][k] = IF m[k] = 1 THEN call.u_hat[c][k] ELSE CInt(0, 0)
            /\ \A i \in 2 .. 4 : st[i].in = st[i - 1].out
            /\ DOMAIN st[2].out[0] = 0 .. N - 1
            /\ DOMAIN st[4].out[0] = Modes(N)
            /\ call.result = st[4].out

C2_Witness ==
    /\ call.kind = "evaluate"
    /\ Len(call.steps) = 4
    /\ call.steps[1].out # call.u_hat
    /\ call.steps[4].out # call.steps[1].out

\* C5: masking a masked state changes nothing: for the evaluator's mask m and
\* every state u_hat, m * (m * u_hat) = m * u_hat, and every mask entry is 0 or 1.
C5_DealiasingIdempotent ==
    nonlin.kind # "None" =>
        LET m == nonlin.dealiasing_mask
        IN  /\ \A k \in DOMAIN m : m[k] \in {0, 1}
            /\ \A u_hat \in States(nonlin.num_points) :
                  ApplyMask(m, ApplyMask(m, u_hat)) = ApplyMask(m, u_hat)
            /\ call.kind = "evaluate" =>
                  ApplyMask(m, call.steps[1].out) = call.steps[1].out

C5_Witness ==
    /\ call.kind = "evaluate"
    /\ \E k \in DOMAIN nonlin.dealiasing_mask : nonlin.dealiasing_mask[k] = 0
    /\ call.steps[1].op = "mask"
    /\ call.steps[1].out # call.u_hat

\* C6: evaluate has no side effect: after any number of calls the evaluator
\* still is the object the constructor made (same mask, same num_spatial_dims,
\* same num_points), the caller's array is what it was, and equal inputs have
\* given equal results whatever was called in between.
C6_EvaluatePure ==
    /\ nonlin.kind # "None" =>
          /\ nonlin.num_spatial_dims = ctor.num_spatial_dims
          /\ nonlin.num_points = ctor.num_points
          /\ nonlin.dealiasing_mask =
                DealiasingMask(ctor.num_spatial_dims, ctor.num_points,
                               ctor.dealiasing_fraction)
    /\ call.kind = "evaluate" =>
          /\ nonlin = call.self_before
          /\ call.u_hat_after = call.u_hat
    /\ \A p, q \in history : p[1] = q[1] => p[2] = q[2]

C6_Witness ==
    /\ ncalls >= 3
    /\ Cardinality(history) = 2
    /\ \E k \in DOMAIN nonlin.dealiasing_mask : nonlin.dealiasing_mask[k] = 0


-----------------------------------------------------------------------------
(* Properties of the presets                                               *)

\* The dealiasing fraction the preset's evaluator was built with.
EvaluatorFractionIs(f) ==
    IF stepper.kind = "BelousovZhabotinsky"
    THEN stepper.nonlinear_fun.dealiasing_mask =
             DealiasingMask(stepper.num_spatial_dims, stepper.num_points, f)
    ELSE stepper.nonlinear_fun.kwargs.dealiasing_fraction = f

\* C3, as stated: AllenCahn, FisherKPP and BelousovZhabotinsky each use the
\* dealiasing fraction 1/2 when the caller passes none.
C3_AllThreeDefaultToHalf ==
    (stepper.kind # "None" /\ presetCall.kw.dealiasing_fraction = Absent) =>
        /\ stepper.dealiasing_fraction = Rat(1, 2)
        /\ EvaluatorFractionIs(Rat(1, 2))

\* C3, amended: when the caller passes no dealiasing fraction, AllenCahn and
\* BelousovZhabotinsky use 1/2, and FisherKPP, whose polynomial is quadratic
\* (coefficients [0, 0, -r]), uses 2/3; a fraction the caller passes is used as is.
C3_DefaultDealiasingFraction ==
    stepper.kind # "None" =>
        LET given == presetCall.kw.dealiasing_fraction
            expected ==
                IF given # Absent THEN CHOOSE v \in given : TRUE
                ELSE IF stepper.kind = "FisherKPP" THEN Rat(2, 3) ELSE Rat(1, 2)
        IN  /\ stepper.dealiasing_fraction = expected
            /\ EvaluatorFractionIs(expected)
            /\ stepper.kind = "FisherKPP" =>
                  DOMAIN stepper.nonlinear_fun.kwargs.coefficients = 0 .. 2
            /\ stepper.kind = "AllenCahn" =>
                  DOMAIN stepper.nonlinear_fun.kwargs.coefficients = 0 .. 3

C3_Witness ==
    /\ stepper.kind = "FisherKPP"
    /\ presetCall.kw.dealiasing_fraction = Absent
    /\ stepper.dealiasing_fraction = Rat(2, 3)

\* C4: every preset takes num_circle_points and circle_radius, with defaults
\* 16 and 1.0, and passes the caller's values (or the defaults) on to the base
\* stepper's constructor, with num_spatial_dims, domain_extent, num_points, dt
\* and order as the caller gave them.
C4_QuadratureKnobsForwarded ==
    stepper.kind # "None" =>
        LET a == stepper.base_args
            kw == presetCall.kw
        IN  /\ a.num_circle_points =
                  (IF kw.num_circle_points = Absent THEN 16
                   ELSE CHOOSE v \in kw.num_circle_points : TRUE)
            /\ a.circle_radius =
                  (IF kw.circle_radius = Absent THEN Rat(1, 1)
                   ELSE CHOOSE v \in kw.circle_radius : TRUE)
            /\ a.num_spatial_dims = presetCall.num_spatial_dims
            /\ a.domain_extent = presetCall.domain_extent
            /\ a.num_points = presetCall.num_points
            /\ a.dt = presetCall.dt
            /\ a.order = (IF kw.order = Absent THEN 2 ELSE CHOOSE v \in kw.order : TRUE)

C4_Witness ==
    /\ stepper.kind = "BelousovZhabotinsky"
    /\ presetCall.kw.circle_radius = Given(Rat(1, 2))
    /\ presetCall.kw.num_circle_points = Absent
    /\ stepper.base_args.circle_radius = Rat(1, 2)
    /\ stepper.base_args.num_circle_points = 16

\* The Laplace eigenvalue of mode k on a one-dimensional domain of extent L
\* (in units of 2 pi): -(k / L)^2.
LaplaceSymbol(k, L) == RNeg(RMul(RMul(RInt(k), Rat(L[2], L[1])), RMul(RInt(k), Rat(L[2], L[1]))))

\* C7: AllenCahn builds L = diffusivity * Laplace + first_order_coefficient and
\* the polynomial [0, 0, 0, third_order_coefficient]; FisherKPP builds
\* L = Laplace + r and the polynomial [0, 0, -r].  The coefficients of degree 0
\* and 1 are 0: the linear coefficient is in L and nowhere else.
C7_LinearTermsFolded ==
    /\ stepper.kind = "AllenCahn" =>
          LET kw == presetCall.kw
              nu == OrDefault(kw.diffusivity, Rat(5, 1000))
              c1 == OrDefault(kw.first_order_coefficient, RInt(1))
              c3 == OrDefault(kw.third_order_coefficient, RInt(-1))
              co == stepper.nonlinear_fun.kwargs.coefficients
          IN  /\ DOMAIN stepper.linear_operator = {0}
              /\ \A k \in Modes(stepper.num_points) :
                    stepper.linear_operator[0][k] =
                        Cx(RAdd(RMul(nu, LaplaceSymbol(k, stepper.domain_extent)), c1),
                           RInt(0))
              /\ co = List(<<RInt(0), RInt(0), RInt(0), c3>>)
              /\ co[0] = RInt(0) /\ co[1] = RInt(0)
    /\ stepper.kind = "FisherKPP" =>
          LET r == OrDefault(presetCall.kw.r, RInt(1))
              co == stepper.nonlinear_fun.kwargs.coefficients
          IN  /\ DOMAIN stepper.linear_operator = {0}
              /\ \A k \in Modes(stepper.num_points) :
                    stepper.linear_operator[0][k] =
                        Cx(RAdd(LaplaceSymbol(k, stepper.domain_extent), r), RInt(0))
              /\ co = List(<<RInt(0), RInt(0), RNeg(r)>>)
              /\ co[0] = RInt(0) /\ co[1] = RInt(0)

C7_Witness ==
    /\ stepper.kind = "AllenCahn"
    /\ presetCall.kw.first_order_coefficient = Given(RInt(2))
    /\ presetCall.kw.diffusivity = Given(Rat(1, 100))
    /\ stepper.num_points = 4
    /\ stepper.linear_operator[0][0] = CInt(2, 0)
    /\ stepper.linear_operator[0][2] # stepper.linear_operator[0][0]


\* C11: the linear operator a preset builds has one leading entry per channel
\* the preset passes to the base stepper (1 for AllenCahn and FisherKPP, 3 for
\* BelousovZhabotinsky); in BelousovZhabotinsky channel i is
\* diffusivities[i] * Laplace, i = 0, 1, 2 in this order, with no zeroth-order
\* term: the mean mode of every channel is 0.
C11_LinearOperatorChannels ==
    stepper.kind # "None" =>
        /\ DOMAIN stepper.linear_operator = 0 .. stepper.base_args.num_channels - 1
        /\ stepper.base_args.num_channels =
              (IF stepper.kind = "BelousovZhabotinsky" THEN 3 ELSE 1)
        /\ \A c \in DOMAIN stepper.linear_operator :
              DOMAIN stepper.linear_operator[c] = Modes(stepper.num_points)
        /\ stepper.kind = "BelousovZhabotinsky" =>
              LET d == OrDefault(presetCall.kw.diffusivities,
                                 List(<<Rat(1, 100000), Rat(2, 100000), Rat(1, 100000)>>))
              IN  \A i \in 0 .. 2 :
                      /\ \A k \in Modes(stepper.num_points) :
                            stepper.linear_operator[i][k] =
                                Cx(RMul(d[i], LaplaceSymbol(k, stepper.domain_extent)),
                                   RInt(0))
                      /\ stepper.linear_operator[i][0] = CInt(0, 0)

C11_Witness ==
    /\ stepper.kind = "BelousovZhabotinsky"
    /\ presetCall.kw.diffusivities = Given(List(<<RInt(1), RInt(2), RInt(3)>>))
    /\ stepper.num_points = 4
    /\ stepper.linear_operator[0][1] # stepper.linear_operator[1][1]
    /\ stepper.linear_operator[1][1] # stepper.linear_operator[2][1]

\* What a call of an evaluator constructor passes for the parameter `name`,
\* the parameter at position `pos` (from 1) of the signature
\* (num_spatial_dims, num_points, num_channels, *, ...): Given(v), or Absent.
Passed(fun, name, pos) ==
    IF name \in DOMAIN fun.kwargs THEN Given(fun.kwargs[name])
    ELSE IF pos >= 1 /\ pos <= Len(fun.args) THEN Given(fun.args[pos])
    ELSE Absent

\* C12: every preset's _build_nonlinear_fun passes the stepper's own
\* num_spatial_dims, num_points and num_channels, the derivative operator it was
\* given and the stepper's dealiasing_fraction to the evaluator's constructor;
\* BelousovZhabotinsky so builds its evaluator with 3 channels and the channel
\* count error is never raised through the preset.
C12_EvaluatorConfiguredFromStepper ==
    /\ presetCall.kind = "BelousovZhabotinsky" => presetCall.raised = "None"
    /\ stepper.kind = "BelousovZhabotinsky" =>
          LET nf == stepper.nonlinear_fun
          IN  /\ nf.num_spatial_dims = stepper.num_spatial_dims
              /\ nf.num_points = stepper.num_points
              /\ nf.num_channels = stepper.num_channels
              /\ nf.num_channels = 3
              /\ nf.derivative_operator = stepper.derivative_operator
              /\ nf.dealiasing_mask =
                    DealiasingMask(stepper.num_spatial_dims, stepper.num_points,
                                   stepper.dealiasing_fraction)
    /\ stepper.kind \in {"AllenCahn", "FisherKPP"} =>
          LET nf == stepper.nonlinear_fun
          IN  /\ Passed(nf, "num_spatial_dims", 1) = Given(stepper.num_spatial_dims)
              /\ Passed(nf, "num_points", 2) = Given(stepper.num_points)
              /\ Passed(nf, "num_channels", 3) = Given(stepper.num_channels)
              /\ Passed(nf, "derivative_operator", 0) =
                    Given(stepper.derivative_operator)
              /\ Passed(nf, "dealiasing_fraction", 0) =
                    Given(stepper.dealiasing_fraction)

-----------------------------------------------------------------------------
(* Properties of the plot functions                                        *)

SinglePlotFunctions == {"plot_state_1d", "plot_spatio_temporal", "plot_state_2d"}

FacetFunctions ==
    {"plot_state_1d_facet", "plot_spatio_temporal_facet", "plot_state_2d_facet"}

\* C8: plot_state_1d, plot_spatio_temporal and plot_state_2d return the tuple
\* (figure, axis, plot object) when the caller gives no `ax`, and the plot
\* object alone when the caller gives one.
C8_TupleWithoutAx ==
    (plot.kind \in SinglePlotFunctions /\ plot.raised = "None") =>
        IF plot.ax = "None"
        THEN plot.returns = "(fig, ax, p)"
        ELSE plot.returns \in {"p", "im"}

\* The facet call is one its docstring allows: the array has the number of
\* axes the function asks for.
FacetInputValid ==
    /\ plot.kind \in FacetFunctions
    /\ Len(plot.shape) =
          (IF plot.kind = "plot_state_1d_facet" \/ plot.facet_over_channels
           THEN 3 ELSE 4)

\* The number of states or trajectories the facet is taken over.
NumItems ==
    IF plot.kind = "plot_spatio_temporal_facet" /\ plot.facet_over_channels
    THEN plot.shape[2]
    ELSE plot.shape[1]

\* C9: plot_state_2d_facet on a three-axis array (channels, N, N) with
\* facet_over_channels = True, on a grid of two or more cells with a cell for
\* every channel, plots every channel in its own cell and returns the figure;
\* no slice is refused by plot_state_2d.
C9_FacetOverChannels2d ==
    (/\ plot.kind = "plot_state_2d_facet"
     /\ plot.facet_over_channels
     /\ Len(plot.shape) = 3
     /\ plot.grid[1] * plot.grid[2] >= 2
     /\ plot.grid[1] * plot.grid[2] >= plot.shape[1]) =>
        /\ plot.raised = "None"
        /\ plot.returns = "fig"
        /\ \A i \in 0 .. plot.shape[1] - 1 :
              \E n \in DOMAIN plot.cells :
                  plot.cells[n].i = i /\ plot.cells[n].plotted

\* C10: a facet call with fewer items than grid cells removes every cell
\* i >= the number of items and returns the figure; it indexes its input and
\* calls the single-item plot function only for cells i < the number of items.
C10_SurplusCellsRemoved ==
    (FacetInputValid /\ NumItems < plot.grid[1] * plot.grid[2]) =>
        /\ plot.raised = "None"
        /\ plot.returns = "fig"
        /\ Len(plot.cells) = plot.grid[1] * plot.grid[2]
        /\ \A n \in DOMAIN plot.cells :
              LET c == plot.cells[n]
              IN  /\ c.in_range
                  /\ c.i >= NumItems => (c.removed /\ ~c.indexed /\ ~c.plotted)
                  /\ c.i < NumItems => (c.indexed /\ c.plotted /\ ~c.removed)

=============================================================================
